---- MODULE Spec2Model ----
(***************************************************************************)
(* Model of the process-driving core of SteamCMD-JS-Interface:             *)
(*   - AsyncQueue (src/src/lib/AsyncQueue.js), at the granularity of the   *)
(*     JavaScript promise-job (microtask) queue;                           *)
(*   - getPtyDataIterator / getPtyExitPromise (src/unnamed/part_015);      *)
(*   - SteamCmd.run, SteamCmd.cleanup, SteamCmd.updateApp, SteamCmd.init   *)
(*     and the constructor (src/src/SteamCmd.js);                          *)
(*   - SteamCmdError (src/unnamed/part_014).                               *)
(*                                                                         *)
(* Items are numbered in the order they enter the queue: the k-th item is  *)
(* the integer k.  The value of an empty Array.prototype.pop() is          *)
(* Undefined.                                                              *)
(***************************************************************************)
EXTENDS Integers, Sequences, FiniteSets, TLC

\* ------------------------------------------------------------------ bounds
\* The number of dequeue()/next() calls a behaviour makes.
MaxCalls == 3
\* The number of items a behaviour puts into the queue (constructor + enqueue).
MaxItems == 3
\* The longest array given to the constructor.
MaxInit == 2
\* The longest command list given to run().
MaxCmds == 2
\* The number of SteamCmd.init calls and of direct constructor calls a
\* behaviour makes.
MaxInitCalls == 2
MaxDirectCalls == 2
\* The largest integer exit code.
MaxCode == 100
\* The number of data chunks of an output, and of whole lines in a chunk.
MaxChunks == 2
MaxChunkLines == 2

\* The number of login calls and of run calls of one session.
MaxLogins == 2
MaxRuns == 2
\* The number of characters of a chunk given to the pty data listener.
MaxChunkLen == 3
\* The number of tokens of an stdout chunk, and of chunks of an stdout text.
MaxStreamLen == 2
MaxStreamChunks == 2
\* The largest `retries` option.
MaxRetries == 6
\* The number of characters of a text given to _chunksToLines.
MaxTextLen == 3

\* The result of Array.prototype.pop() on an empty array.
Undefined == 0

VARIABLES
  queue,            \* AsyncQueue.#queue, as the JS array (index 1 is JS index 0)
  dqFulfilled,      \* whether the promise now held in #dequeuePromise is fulfilled
  isClosed,         \* AsyncQueue.#isClosed
  closedFulfilled,  \* whether AsyncQueue.#closedPromise is fulfilled
  calls,            \* the dequeue() and iterator next() calls made so far
  jobs,             \* the promise-job (microtask) queue, oldest first
  nItems,           \* history: number of items that entered the queue
  multi,            \* history: a call was made while an earlier one was unsettled
  dropped,          \* history: the items close() found in the buffer
  last,             \* history: whether the last step was an enqueue() or a close()
                    \* call, and whether that call threw
  \* getPtyDataIterator, getPtyExitPromise / the pseudo terminal
  onData,           \* the listener of pty.onData is registered
  onExit,           \* the listener getPtyDataIterator gave pty.onExit is registered
  ptyExited,        \* the pseudo terminal has fired its exit event
  nData,            \* history: number of data events the pseudo terminal fired
  exitListener,     \* the listener getPtyExitPromise gave pty.onExit is registered
  procCode,         \* history: <<code>> of the exit event fired, <<>> before it
  lateData,         \* history: a data event fired after the exit event
  exitResolved,     \* the promise of getPtyExitPromise is fulfilled
  exitCode,         \* the exit code it is fulfilled with
  \* SteamCmd.run
  runPc,            \* where the run generator stands
  runEnd,           \* how the run ends: the completion its finally block carries
  fileExists,       \* the temporary script file is on disk
  scriptWritten,    \* appendFile has written the script
  procAlive,        \* the spawned Steam CMD process is alive
  currentPty,       \* SteamCmd.#currentSteamCmdPty: "null" or "pty"
  killed,           \* kill() was called on the live process
  errCode,          \* <<exitCode>> of the SteamCmdError run threw, else <<>>
  commands,         \* the command list run was called with
  noAutoLogin,      \* the noAutoLogin option run was called with
  script,           \* the text of the temporary script file
  \* SteamCmd.updateApp
  updPc,            \* where the updateApp generator stands
  installDirAbs,    \* isAbsolute(this.#installDir)
  installDirExists, \* the install directory is on disk
  \* SteamCmd.init and the constructor
  initialising,     \* SteamCmd.#initialising
  platform,         \* process.platform
  pendingInits,     \* init calls past the constructor, not yet settled
  initsDone,        \* history: init calls made
  instances,        \* history: init calls that resolved with an instance
  directCalls,      \* history: direct constructor calls made
  directBuilt,      \* history: a direct constructor call returned an instance
  ctorLast,         \* history: who called the constructor last, and how it ended
  \* SteamCmdError
  err,              \* <<the SteamCmdError constructed last>>, <<>> before
  \* updateApp's reading of the output
  chunks,           \* the data chunks the process has still to emit
  pending,          \* <<the string the data listener made of a chunk>>
  emitted,          \* history: the progress lines emitted, in order
  events,           \* the progress events updateApp has yielded
  \* two runs on one instance
  slot,             \* SteamCmd.#currentSteamCmdPty: "null" or the run that set it
  runs,             \* per run: position, process alive, process killed
  lastStep,         \* history: whether the last step was cleanup()
  \* the constructor's array
  nInit,            \* history: the number of values given to the constructor
  \* login and run calls of one instance, one after the other
  username,         \* SteamCmd.#username
  sessPc,           \* "idle", or the call in progress: "login", "run"
  loginArg,         \* the username argument of the login call in progress
  callerArray,      \* the array the caller passes to run as `commands`
  given,            \* history: that array as it was first passed
  scripts,          \* history: per run call, the stored user and the script text
  nLogins,          \* history: login calls made
  sessLast,         \* history: the call that ended last, and how
  \* the data listener of getPtyDataIterator on one chunk
  cleanIn,          \* <<the chunk of the data event to come>>, <<>> after it
  rawMode,          \* the `raw` argument
  cleanOut,         \* <<the item the listener enqueued>>, <<>> before
  \* the stream-based run of main.js
  sChunks,          \* the stdout chunks the process has still to emit
  currLine,         \* `currLine`: the unfinished last line
  sExitCode,        \* `exitCode` of the promise callback
  seen,             \* history: the codes of the marker lines, in output order
  sReported,        \* <<code emitted with 'close', code of the process>>
  \* _promiseToRetry
  retriesOpt,       \* this._options.retries
  retries,          \* `retries`
  attempts,         \* history: the outcome of each call of func, in order
  retryPc,          \* "loop", "attempt", "delay", "resolved", "rejected"
  retryValue,       \* <<the value _promiseToRetry resolved with>>
  \* _chunksToLines
  lChunks,          \* the chunks the iterable has still to give
  previous,         \* `previous`
  yielded,          \* the lines yielded so far
  lText,            \* history: the whole text, the chunks concatenated
  lPc,              \* "take", "split", "done"
  \* the legacy getErrorMessage
  legacyMsg         \* <<argument and result of the last call>>, <<>> before

qvars == <<queue, dqFulfilled, isClosed, closedFulfilled, calls, jobs,
           nItems, multi, dropped, last>>

pvars == <<onData, onExit, ptyExited, nData, lateData, exitListener, procCode,
           exitResolved, exitCode>>

rvars == <<runPc, runEnd, fileExists, scriptWritten, procAlive, currentPty,
           killed, errCode, commands, noAutoLogin, script, updPc,
           installDirAbs, installDirExists>>

ivars == <<initialising, platform, pendingInits, initsDone, instances,
           directCalls, directBuilt, ctorLast>>

evars == <<err>>

gvars == <<chunks, pending, emitted, events>>

tvars == <<slot, runs, lastStep>>

svars == <<username, sessPc, loginArg, callerArray, given, scripts, nLogins,
           sessLast>>

cvars == <<cleanIn, rawMode, cleanOut>>

mvars == <<sChunks, currLine, sExitCode, seen, sReported>>

yvars == <<retriesOpt, retries, attempts, retryPc, retryValue>>

kvars == <<lChunks, previous, yielded, lText, lPc>>

hvars == <<legacyMsg>>

lvars == <<nInit, svars, cvars, mvars, yvars, kvars, hvars>>

\* What an action of one of the later layers leaves alone.
notS == <<qvars, pvars, rvars, ivars, evars, gvars, tvars, nInit,
          cvars, mvars, yvars, kvars, hvars>>

notC == <<qvars, pvars, rvars, ivars, evars, gvars, tvars, nInit,
          svars, mvars, yvars, kvars, hvars>>

notM == <<qvars, pvars, rvars, ivars, evars, gvars, tvars, nInit,
          svars, cvars, yvars, kvars, hvars>>

notY == <<qvars, pvars, rvars, ivars, evars, gvars, tvars, nInit,
          svars, cvars, mvars, kvars, hvars>>

notK == <<qvars, pvars, rvars, ivars, evars, gvars, tvars, nInit,
          svars, cvars, mvars, yvars, hvars>>

notH == <<qvars, pvars, rvars, ivars, evars, gvars, tvars, nInit,
          svars, cvars, mvars, yvars, kvars>>

ovars == <<evars, gvars, tvars, lvars>>

vars == <<qvars, pvars, rvars, ivars, ovars>>

\* ------------------------------------------------------------ array helpers
\* Array.prototype.unshift(item): the item becomes JS index 0.
Unshift(q, item) == <<item>> \o q

\* The value of Array.prototype.pop(): the last element, undefined when empty.
PopValue(q) == IF q = <<>> THEN Undefined ELSE q[Len(q)]

\* The array after Array.prototype.pop().
PopRest(q) == IF q = <<>> THEN <<>> ELSE SubSeq(q, 1, Len(q) - 1)

\* q.splice(0, q.length) in close(): the array is emptied.
SplicedKeep(q) == q
Spliced(q) == <<>>

\* The array the constructor builds from `values` (push(...values)); n < 0
\* stands for a call without an array.
InitialQueue(n) == IF n < 0 THEN <<>> ELSE [i \in 1..n |-> i]

\* ------------------------------------------------------------------- calls
Job(k, c) == [k |-> k, c |-> c]

\* A call of dequeue() (kind "dequeue") or of the iterator's next() (kind
\* "next", which wraps a dequeue()).  cur: the promise the call raced is the
\* one #dequeuePromise still holds (_createDequeuePromise replaces it);
\* race: the Promise.race inside dequeue(); st/val: the promise dequeue()
\* returned; out/outVal: the promise next() returned.
\* History fields: quiet (made on an empty open queue, no enqueue or close
\* since), afterClose (made on a closed queue), closedEmpty (was pending on an
\* empty queue when close() was called).
NewCall(kind) ==
  [kind |-> kind, cur |-> TRUE, race |-> "pending", st |-> "pending",
   val |-> Undefined,
   out |-> IF kind = "next" THEN "pending" ELSE "none", outVal |-> Undefined,
   quiet |-> (queue = <<>> /\ ~isClosed), afterClose |-> isClosed,
   closedEmpty |-> FALSE]

\* Whether the caller of call c has seen it settle.
Settled(c) == IF c.kind = "next" THEN c.out # "pending" ELSE c.st # "pending"

\* The jobs a dequeue() call number c queues synchronously: the reaction of
\* #closedPromise.then(throw) when the queue is already closed, then the
\* reaction Promise.race puts on #dequeuePromise when it is already fulfilled.
DequeueJobs(c) ==
  (IF closedFulfilled THEN <<Job("closeThrow", c)>> ELSE <<>>) \o
  (IF dqFulfilled THEN <<Job("raceFulfil", c)>> ELSE <<>>)

\* The job next() queues for its own #closedPromise.then(() => ({done: true})).
NextCloseJobsNone(c) == <<>>
NextCloseJobs(c) == IF closedFulfilled THEN <<Job("closeDone", c)>> ELSE <<>>

\* The reactions registered on #closedPromise by call number c, which
\* resolving the promise queues in registration order.  Reactions of a race
\* that has already settled do nothing and are left out.
ClosedReactionsOf(c) ==
  (IF calls[c].race = "pending" THEN <<Job("closeThrow", c)>> ELSE <<>>) \o
  (IF calls[c].kind = "next" /\ calls[c].out = "pending"
     THEN <<Job("closeDone", c)>> ELSE <<>>)

RECURSIVE ClosedReactions(_)
ClosedReactions(n) ==
  IF n = 0 THEN <<>> ELSE ClosedReactions(n - 1) \o ClosedReactionsOf(n)

\* An enqueue() that wakes nobody.
NoReactions(n) == <<>>

\* The reactions registered on the current #dequeuePromise: one per call that
\* raced it.
RECURSIVE DequeueReactions(_)
DequeueReactions(n) ==
  IF n = 0 THEN <<>>
  ELSE DequeueReactions(n - 1) \o
       (IF calls[n].cur /\ calls[n].race = "pending"
          THEN <<Job("raceFulfil", n)>> ELSE <<>>)

\* ----------------------------------------------------------- construction
\* new AsyncQueue(values): n < 0 is a call without an array, n >= 0 an array
\* of n values.  An array, even an empty one, resolves the dequeue promise.
QInit(n) ==
  /\ queue = InitialQueue(n)
  /\ dqFulfilled = (n >= 0)
  /\ isClosed = FALSE
  /\ closedFulfilled = FALSE
  /\ calls = <<>>
  /\ jobs = <<>>
  /\ nItems = IF n >= 0 THEN n ELSE 0
  /\ nInit = IF n >= 0 THEN n ELSE 0
  /\ multi = FALSE
  /\ dropped = {}
  /\ last = [op |-> "other", threw |-> FALSE]


\* --------------------------------------------------------------- enqueue()
\* `if (this.#isClosed) throw`
CannotEnqueueNever == FALSE
CannotEnqueue == isClosed

Enqueue ==
  /\ nItems < MaxItems
  /\ IF CannotEnqueue
       THEN /\ last' = [op |-> "enqueue", threw |-> TRUE]
            /\ UNCHANGED <<queue, dqFulfilled, jobs, nItems, calls>>
       ELSE /\ queue' = Unshift(queue, nItems + 1)
            /\ nItems' = nItems + 1
            /\ dqFulfilled' = TRUE
            /\ jobs' = IF dqFulfilled THEN jobs
                       ELSE jobs \o DequeueReactions(Len(calls))
            /\ calls' = [c \in 1..Len(calls) |-> [calls[c] EXCEPT !.quiet = FALSE]]
            /\ last' = [op |-> "enqueue", threw |-> FALSE]
  /\ UNCHANGED <<isClosed, closedFulfilled, multi, dropped>>

\* ------------------------------------------------------ dequeue() / next()
\* The synchronous part of dequeue(), up to its await.
Dequeue ==
  /\ Len(calls) < MaxCalls
  /\ calls' = Append(calls, NewCall("dequeue"))
  /\ jobs' = jobs \o DequeueJobs(Len(calls) + 1)
  /\ multi' = (multi \/ \E c \in 1..Len(calls) : ~Settled(calls[c]))
  /\ last' = [op |-> "other", threw |-> FALSE]
  /\ UNCHANGED <<queue, dqFulfilled, isClosed, closedFulfilled, nItems, dropped>>

\* next() of [Symbol.asyncIterator](): dequeue().then(...), then
\* #closedPromise.then(...), then Promise.race of the two.
IterNext ==
  /\ Len(calls) < MaxCalls
  /\ calls' = Append(calls, NewCall("next"))
  /\ jobs' = jobs \o DequeueJobs(Len(calls) + 1) \o NextCloseJobs(Len(calls) + 1)
  /\ multi' = (multi \/ \E c \in 1..Len(calls) : ~Settled(calls[c]))
  /\ last' = [op |-> "other", threw |-> FALSE]
  /\ UNCHANGED <<queue, dqFulfilled, isClosed, closedFulfilled, nItems, dropped>>

\* ------------------------------------------------------------------ close()
\* `this.#isClosed = true`
MarkClosedToggle(closed) == ~closed
MarkClosed(closed) == TRUE

Close ==
  /\ isClosed' = MarkClosed(isClosed)
  /\ closedFulfilled' = TRUE
  /\ jobs' = IF closedFulfilled THEN jobs
             ELSE jobs \o ClosedReactions(Len(calls))
  /\ queue' = Spliced(queue)
  /\ dropped' = IF isClosed THEN dropped ELSE {queue[i] : i \in 1..Len(queue)}
  /\ calls' = [c \in 1..Len(calls) |->
                 [calls[c] EXCEPT
                    !.quiet = FALSE,
                    !.closedEmpty = IF isClosed THEN @
                                    ELSE (calls[c].st = "pending" /\ queue = <<>>)]]
  /\ last' = [op |-> "close", threw |-> FALSE]
  /\ UNCHANGED <<dqFulfilled, nItems, multi>>

\* ------------------------------------------------------------ promise jobs
\* _createDequeuePromise(): #dequeuePromise holds a new, pending promise; the
\* calls that raced the old one no longer hold the current promise.
Recreated(cs) == [i \in 1..Len(cs) |-> [cs[i] EXCEPT !.cur = FALSE]]

\* The continuation of dequeue() after `await Promise.race(...)`:
\*   if (this.#queue.length <= 1) this._createDequeuePromise()
\*   return this.#queue.pop()
\* or, when the race rejected, the throw out of the await.
Resume(c) ==
  IF calls[c].race = "fulfilled"
    THEN LET popped == [calls EXCEPT ![c].st = "resolved",
                                     ![c].val = PopValue(queue)]
         IN  /\ queue' = PopRest(queue)
             /\ IF Len(queue) <= 1
                  THEN dqFulfilled' = FALSE /\ calls' = Recreated(popped)
                  ELSE dqFulfilled' = dqFulfilled /\ calls' = popped
    ELSE /\ calls' = [calls EXCEPT ![c].st = "rejected"]
         /\ UNCHANGED <<queue, dqFulfilled>>

\* One promise job: the oldest of the microtask queue.
RunJob ==
  /\ jobs # <<>>
  /\ LET j == Head(jobs)
         c == j.c
         rest == Tail(jobs)
     IN  CASE j.k = "closeThrow" ->
                \* the callback throws: closePromise rejects, and the reaction
                \* Promise.race put on it is queued
                /\ jobs' = Append(rest, Job("raceReject", c))
                /\ UNCHANGED <<queue, dqFulfilled, calls>>
           [] j.k = "raceFulfil" ->
                /\ IF calls[c].race = "pending"
                     THEN /\ calls' = [calls EXCEPT ![c].race = "fulfilled"]
                          /\ jobs' = Append(rest, Job("resume", c))
                     ELSE /\ jobs' = rest
                          /\ UNCHANGED calls
                /\ UNCHANGED <<queue, dqFulfilled>>
           [] j.k = "raceReject" ->
                /\ IF calls[c].race = "pending"
                     THEN /\ calls' = [calls EXCEPT ![c].race = "rejected"]
                          /\ jobs' = Append(rest, Job("resume", c))
                     ELSE /\ jobs' = rest
                          /\ UNCHANGED calls
                /\ UNCHANGED <<queue, dqFulfilled>>
           [] j.k = "resume" ->
                /\ Resume(c)
                /\ jobs' = IF calls[c].kind = "next"
                             THEN Append(rest, Job("valueThen", c)) ELSE rest
           [] j.k = "valueThen" ->
                \* dequeue().then(value => ({ value, done: false })) settles
                /\ jobs' = Append(rest, Job("outerValue", c))
                /\ UNCHANGED <<queue, dqFulfilled, calls>>
           [] j.k = "outerValue" ->
                /\ calls' = IF calls[c].out # "pending" THEN calls
                            ELSE IF calls[c].st = "resolved"
                              THEN [calls EXCEPT ![c].out = "value",
                                                 ![c].outVal = calls[c].val]
                              ELSE [calls EXCEPT ![c].out = "error"]
                /\ jobs' = rest
                /\ UNCHANGED <<queue, dqFulfilled>>
           [] j.k = "closeDone" ->
                /\ jobs' = Append(rest, Job("outerDone", c))
                /\ UNCHANGED <<queue, dqFulfilled, calls>>
           [] j.k = "outerDone" ->
                /\ calls' = IF calls[c].out # "pending" THEN calls
                            ELSE [calls EXCEPT ![c].out = "done"]
                /\ jobs' = rest
                /\ UNCHANGED <<queue, dqFulfilled>>
  /\ last' = [op |-> "other", threw |-> FALSE]
  /\ UNCHANGED <<isClosed, closedFulfilled, nItems, multi, dropped>>

\* ---------------------------------------------------------- SteamCmdError
\* SteamCmdError.EXIT_CODES
NO_ERROR == 0
UNKNOWN_ERROR == 1
ALREADY_LOGGED_IN == 2
NO_CONNECTION == 3
INVALID_PASSWORD == 5
INITIALIZED == 7
FAILED_TO_INSTALL == 8
MISSING_PARAMETERS_OR_NOT_LOGGED_IN == 10
STEAM_GUARD_CODE_REQUIRED == 63
\* JavaScript's null, the value the older SteamCmd.EXIT_CODES.PROCESS_KILLED
\* had; SteamCmdError.EXIT_CODES has no such member.
Null == -1

\* The exit codes the modelled process may report when it ends by itself.
ExitCodes == {NO_ERROR, INVALID_PASSWORD, INITIALIZED}

\* What the exit event of a killed process may carry: the pseudo terminal
\* library decides, and the source names a forced termination both as null
\* and as UNKNOWN_ERROR.
KillCodes == {Null, UNKNOWN_ERROR}

\* SteamCmdError.getErrorMessage: the text, and the raw code where the text
\* includes it.
GetErrorMessage(code) ==
  CASE code = NO_ERROR -> [text |-> "No error", raw |-> <<>>]
    [] code = UNKNOWN_ERROR -> [text |-> "An unknown error occurred", raw |-> <<>>]
    [] code = ALREADY_LOGGED_IN ->
         [text |-> "A user was already logged into SteamCMD", raw |-> <<>>]
    [] code = NO_CONNECTION ->
         [text |-> "SteamCMD cannot connect to the internet", raw |-> <<>>]
    [] code = INVALID_PASSWORD -> [text |-> "Invalid password", raw |-> <<>>]
    [] code = FAILED_TO_INSTALL ->
         [text |-> "The application failed to install for some reason", raw |-> <<>>]
    [] code = MISSING_PARAMETERS_OR_NOT_LOGGED_IN ->
         [text |-> "One of your commands has missing parameters or you are not logged in",
          raw |-> <<>>]
    [] code = STEAM_GUARD_CODE_REQUIRED ->
         [text |-> "A Steam Guard code was required to log in", raw |-> <<>>]
    [] OTHER -> [text |-> "An unknown error occurred. Exit code: ", raw |-> <<code>>]

\* ------------------------------------------------------------ nodePtyUtils
\* The state of getPtyExitPromise.
xvars == <<exitListener, procCode, exitResolved, exitCode>>

\* Before the generator body has run and before getPtyExitPromise was called:
\* no listener is registered.
PtyIdle ==
  /\ onData = FALSE
  /\ onExit = FALSE
  /\ ptyExited = FALSE
  /\ nData = 0
  /\ lateData = FALSE
  /\ exitListener = FALSE
  /\ procCode = <<>>
  /\ exitResolved = FALSE
  /\ exitCode = NO_ERROR

\* The consumer of the sequence pulls one value at a time (for await).
ConsumerCanPull == IF calls = <<>> THEN TRUE ELSE calls[Len(calls)].out = "value"

\* next() on the generator.  The first one runs the body from its start: the
\* queue is built without values, both listeners are registered, and the
\* for-await over the queue makes its first next().  A later one resumes the
\* loop, which calls next() on the queue again.
PtyPull ==
  /\ ConsumerCanPull
  /\ IterNext
  /\ onData' = IF calls = <<>> THEN TRUE ELSE onData
  /\ onExit' = IF calls = <<>> THEN TRUE ELSE onExit
  /\ UNCHANGED <<ptyExited, nData, lateData>>

\* The pseudo terminal fires a data event, in a turn of the event loop of its
\* own (the promise jobs of the turn before have run).  The listener, when
\* registered, enqueues the chunk.  Output that was read late may arrive
\* after the exit event.
PtyData ==
  /\ jobs = <<>>
  /\ nData < MaxItems
  /\ nData' = nData + 1
  /\ lateData' = (lateData \/ ptyExited)
  /\ IF onData THEN Enqueue ELSE UNCHANGED qvars
  /\ UNCHANGED <<onData, onExit, ptyExited>>

\* The exit listener of getPtyDataIterator: close the queue, dispose of both
\* listeners.  Without a listener the event goes unheard.
ListenerKept(l) == l
Disposed(l) == FALSE

PtyExitHandlersDeaf == UNCHANGED qvars /\ UNCHANGED <<onData, onExit>>
PtyExitHandlers ==
  IF onExit
    THEN Close /\ onData' = Disposed(onData) /\ onExit' = FALSE
    ELSE UNCHANGED qvars /\ UNCHANGED <<onData, onExit>>

\* The pseudo terminal fires its exit event, once.
PtyExit ==
  /\ ~ptyExited
  /\ jobs = <<>>
  /\ ptyExited' = TRUE
  /\ PtyExitHandlers
  /\ UNCHANGED <<nData, lateData>>

\* getPtyExitPromise(pty): the executor of the promise registers its exit
\* listener at once.
ExitPromiseCall ==
  /\ exitListener' = TRUE
  /\ UNCHANGED <<procCode, exitResolved, exitCode>>

\* The exit listener of getPtyExitPromise: resolve with event.exitCode and
\* dispose of the listener.  Without a listener the promise stays as it is.
ExitPromiseUnheard(code) == UNCHANGED <<exitResolved, exitCode, exitListener>>
ExitPromiseHandler(code) ==
  IF exitListener
    THEN exitResolved' = TRUE /\ exitCode' = code /\ exitListener' = FALSE
    ELSE UNCHANGED <<exitResolved, exitCode, exitListener>>

\* The exit event with its exit code, heard by the listeners in the order
\* SteamCmd.run registers them.
PtyExitWith(code) ==
  /\ procCode' = <<code>>
  /\ ExitPromiseHandler(code)
  /\ PtyExit

\* ----------------------------------------------------------- SteamCmd.run
\* The script file, its text and the arguments of run.
fvars == <<fileExists, scriptWritten, script>>

avars == <<commands, noAutoLogin>>

\* The state of updateApp.
uvars == <<updPc, installDirAbs, installDirExists>>

\* A text is a sequence of tokens; NL is the line feed.  A line is a text
\* without NL, the empty string is <<>>.
NL == "\n"

\* The stored username (the default of SteamCmd.init).
Username == "anonymous"

ShutdownLine == <<"@ShutdownOnFailedCommand 1">>

NoPromptLine == <<"@NoPromptForPassword 1">>

LoginLine == <<"login ", "\"", Username, "\"">>

QuitLine == <<"quit">>

\* The commands a caller may give, and the command lists up to MaxCmds long.
Cmds == {<<"app_info_update 1">>, <<"app_status 740">>}

CommandLists == UNION {[1..n -> Cmds] : n \in 0..MaxCmds}

\* `const allCommands = [...]`
AllCommandsNoQuit(c, nal) ==
  <<ShutdownLine, NoPromptLine, IF nal THEN <<>> ELSE LoginLine>> \o c
AllCommands(c, nal) ==
  <<ShutdownLine, NoPromptLine, IF nal THEN <<>> ELSE LoginLine>> \o c \o
  <<QuitLine>>

\* Array.prototype.join('\n')
RECURSIVE JoinLines(_)
JoinLines(ls) ==
  IF ls = <<>> THEN <<>>
  ELSE IF Len(ls) = 1 THEN ls[1]
  ELSE ls[1] \o <<NL>> \o JoinLines(Tail(ls))

\* The text appendFile writes: allCommands.join('\n') + '\n'
ScriptText(c, nal) == JoinLines(AllCommands(c, nal)) \o <<NL>>

\* An instance on which no run is in progress.
RunIdle ==
  /\ runPc = "idle"
  /\ runEnd = "none"
  /\ fileExists = FALSE
  /\ scriptWritten = FALSE
  /\ procAlive = FALSE
  /\ currentPty = "null"
  /\ killed = FALSE
  /\ errCode = <<>>
  /\ commands = <<>>
  /\ noAutoLogin = FALSE
  /\ script = <<>>

\* run(commands, { noAutoLogin }) is called: an async generator function
\* returns its generator and runs nothing of its body.
FileAfterCallEager(f) == TRUE
FileAfterCall(f) == f

RunCall ==
  /\ runPc = "idle"
  /\ updPc = "none"
  /\ runPc' = "called"
  /\ \E c \in CommandLists, nal \in BOOLEAN :
       commands' = c /\ noAutoLogin' = nal
  /\ fileExists' = FileAfterCall(fileExists)
  /\ UNCHANGED <<runEnd, scriptWritten, script, procAlive, currentPty, killed,
                 errCode, uvars>>
  /\ UNCHANGED <<qvars, pvars, ivars, ovars>>

\* The consumer's first next(): the body runs up to `await file()`.
RunStart ==
  /\ runPc = "called"
  /\ runPc' = "file"
  /\ UNCHANGED <<runEnd, fvars, avars, procAlive, currentPty, killed, errCode,
                 uvars>>
  /\ UNCHANGED <<qvars, pvars, ivars, ovars>>

\* file() of tmp-promise resolves: the temporary file exists, the try block
\* is entered and appendFile is awaited.
RunFileCreated ==
  /\ runPc = "file"
  /\ fileExists' = TRUE
  /\ runPc' = "write"
  /\ UNCHANGED <<runEnd, scriptWritten, script, avars, procAlive, currentPty,
                 killed, errCode, uvars>>
  /\ UNCHANGED <<qvars, pvars, ivars, ovars>>

\* file() rejects: no file was made, and the rejection leaves run before its
\* try block.
RunFileFailed ==
  /\ runPc = "file"
  /\ runPc' = "done"
  /\ runEnd' = "fileError"
  /\ UNCHANGED <<fvars, avars, procAlive, currentPty, killed, errCode, uvars>>
  /\ UNCHANGED <<qvars, pvars, ivars, ovars>>

\* appendFile rejects: control goes to the finally block.
RunWriteFailed ==
  /\ runPc = "write"
  /\ runPc' = "cleanup"
  /\ runEnd' = "writeError"
  /\ UNCHANGED <<fvars, avars, procAlive, currentPty, killed, errCode, uvars>>
  /\ UNCHANGED <<qvars, pvars, ivars, ovars>>

\* A throw inside the try block takes control to the finally block.
ThrowSwallowed(pc) == pc
AfterThrow(pc) == "cleanup"

\* appendFile resolves and pty.spawn throws: control goes to the finally
\* block.
RunSpawnFailed ==
  /\ runPc = "write"
  /\ scriptWritten' = TRUE
  /\ script' = ScriptText(commands, noAutoLogin)
  /\ runPc' = AfterThrow(runPc)
  /\ runEnd' = "spawnError"
  /\ UNCHANGED <<fileExists, avars, procAlive, currentPty, killed, errCode,
                 uvars>>
  /\ UNCHANGED <<qvars, pvars, ivars, ovars>>

\* appendFile resolves and pty.spawn returns: the process is stored in
\* #currentSteamCmdPty, getPtyExitPromise registers its exit listener, and the
\* for-await makes its first next() on getPtyDataIterator.
RunSpawned ==
  /\ runPc = "write"
  /\ scriptWritten' = TRUE
  /\ script' = ScriptText(commands, noAutoLogin)
  /\ procAlive' = TRUE
  /\ currentPty' = "pty"
  /\ ExitPromiseCall
  /\ PtyPull
  /\ runPc' = "lines"
  /\ UNCHANGED <<runEnd, fileExists, avars, killed, errCode, uvars, ivars, ovars>>

\* The process writes output.
RunData ==
  /\ procAlive
  /\ PtyData
  /\ UNCHANGED <<xvars, rvars, ivars, ovars>>

\* The process exits with `code`: the listener of getPtyExitPromise, the first
\* registered, resolves the exit promise; then the listener of
\* getPtyDataIterator runs.  A killed process ends with one of KillCodes.
RunExit(code) ==
  /\ procAlive
  /\ code \in (IF killed THEN KillCodes ELSE ExitCodes)
  /\ procAlive' = FALSE
  /\ PtyExitWith(code)
  /\ UNCHANGED <<runPc, runEnd, fvars, avars, currentPty, killed, errCode,
                 uvars, ivars, ovars>>

\* The queue handed the loop a line: run yields it to its consumer.
RunLine ==
  /\ runPc = "lines"
  /\ calls[Len(calls)].out = "value"
  /\ runPc' = "yielded"
  /\ UNCHANGED <<runEnd, fvars, avars, procAlive, currentPty, killed, errCode,
                 uvars>>
  /\ UNCHANGED <<qvars, pvars, ivars, ovars>>

\* The consumer pulls again: the loop calls next() on the line sequence.
RunNextLine ==
  /\ runPc = "yielded"
  /\ Len(calls) < MaxCalls
  /\ PtyPull
  /\ runPc' = "lines"
  /\ UNCHANGED <<runEnd, fvars, avars, procAlive, currentPty, killed, errCode,
                 uvars>>
  /\ UNCHANGED <<xvars, ivars, ovars>>

\* The line sequence ended (or failed): the loop is left; `await exitPromise`
\* comes next, or the finally block when the sequence threw.
RunLinesEnd ==
  /\ runPc = "lines"
  /\ calls[Len(calls)].out \in {"done", "error"}
  /\ IF calls[Len(calls)].out = "done"
       THEN runPc' = "awaitExit" /\ runEnd' = runEnd
       ELSE runPc' = "cleanup" /\ runEnd' = "queueError"
  /\ UNCHANGED <<fvars, avars, procAlive, currentPty, killed, errCode, uvars>>
  /\ UNCHANGED <<qvars, pvars, ivars, ovars>>

\* `const exitCode = await exitPromise`, then #currentSteamCmdPty = null and
\* the throw of a SteamCmdError unless the code is NO_ERROR or INITIALIZED.
FailingUnlessZero(code) == code # NO_ERROR
Failing(code) == code # NO_ERROR /\ code # INITIALIZED

RunExitObserved ==
  /\ runPc = "awaitExit"
  /\ exitResolved
  /\ currentPty' = "null"
  /\ runEnd' = IF Failing(exitCode) THEN "SteamCmdError" ELSE "normal"
  /\ errCode' = IF Failing(exitCode) THEN <<exitCode>> ELSE <<>>
  /\ runPc' = "cleanup"
  /\ UNCHANGED <<fvars, avars, procAlive, killed, uvars>>
  /\ UNCHANGED <<qvars, pvars, ivars, ovars>>

\* The consumer leaves its loop early: return() on the generator suspended at
\* its yield runs the finally block.
RunReturn ==
  /\ runPc = "yielded"
  /\ runPc' = "cleanup"
  /\ runEnd' = "return"
  /\ UNCHANGED <<fvars, avars, procAlive, currentPty, killed, errCode, uvars>>
  /\ UNCHANGED <<qvars, pvars, ivars, ovars>>

\* `finally { await commandFile.cleanup() }`: the finally block runs for every
\* completion of the try block.
CleanupOnlyAfterSuccess(end) == end = "normal"
CleanupRuns(end) == TRUE

RunCleanup ==
  /\ runPc = "cleanup"
  /\ fileExists' = IF CleanupRuns(runEnd) THEN FALSE ELSE fileExists
  /\ runPc' = "done"
  /\ UNCHANGED <<runEnd, scriptWritten, script, avars, procAlive, currentPty,
                 killed, errCode, uvars>>
  /\ UNCHANGED <<qvars, pvars, ivars, ovars>>

\* ------------------------------------------------------- SteamCmd.cleanup
\* kill() on the pseudo terminal: a live process is signalled and will fire
\* its exit event; on a process that has exited nothing happens.
Kill == killed' = (killed \/ procAlive)

\* cleanup(): kill the process the reference holds, then clear the reference.
\* On a null reference cleanup() changes nothing.
Cleanup ==
  /\ currentPty = "pty"
  /\ Kill
  /\ currentPty' = "null"
  /\ UNCHANGED <<runPc, runEnd, fvars, avars, procAlive, errCode, uvars>>
  /\ UNCHANGED <<qvars, pvars, ivars, ovars>>

\* The caller kills the process it got from the currSteamCmdProcess getter.
KillDirect ==
  /\ currentPty = "pty"
  /\ procAlive
  /\ ~killed
  /\ Kill
  /\ UNCHANGED <<runPc, runEnd, fvars, avars, procAlive, currentPty, errCode,
                 uvars>>
  /\ UNCHANGED <<qvars, pvars, ivars, ovars>>

\* ------------------------------------------------------ SteamCmd.updateApp
\* The command list updateApp gives to run (no option set).
UpdateCommands ==
  << <<"force_install_dir ", "\"", "installDir", "\"">>, <<"app_update ", "appId">> >>

\* An instance on which updateApp was not called; `abs` tells whether its
\* install directory is an absolute path.
UpdIdle(abs) ==
  /\ updPc = "none"
  /\ installDirAbs = abs
  /\ installDirExists = FALSE

\* updateApp(appId) is called: the generator is made, nothing runs.
UpdateCall ==
  /\ runPc = "idle"
  /\ updPc = "none"
  /\ updPc' = "called"
  /\ UNCHANGED <<installDirAbs, installDirExists>>
  /\ UNCHANGED <<runPc, runEnd, fvars, avars, procAlive, currentPty, killed,
                 errCode>>
  /\ UNCHANGED <<qvars, pvars, ivars, ovars>>

\* `if (!isAbsolute(this.#installDir)) throw new TypeError(...)`
PassesAlways(abs) == TRUE
IsAbsolute(abs) == abs

\* The consumer's first next(): the check of the install directory, then
\* `await mkdir(...)`.
UpdateStart ==
  /\ updPc = "called"
  /\ updPc' = IF IsAbsolute(installDirAbs) THEN "mkdir" ELSE "typeError"
  /\ UNCHANGED <<installDirAbs, installDirExists>>
  /\ UNCHANGED <<runPc, runEnd, fvars, avars, procAlive, currentPty, killed,
                 errCode>>
  /\ UNCHANGED <<qvars, pvars, ivars, ovars>>

\* mkdir rejects.
UpdateMkdirFailed ==
  /\ updPc = "mkdir"
  /\ updPc' = "mkdirError"
  /\ UNCHANGED <<installDirAbs, installDirExists>>
  /\ UNCHANGED <<runPc, runEnd, fvars, avars, procAlive, currentPty, killed,
                 errCode>>
  /\ UNCHANGED <<qvars, pvars, ivars, ovars>>

\* mkdir resolves: the directory exists, the commands are built, and the
\* for-await calls this.run(commands) and pulls from it.
UpdateRun ==
  /\ updPc = "mkdir"
  /\ updPc' = "running"
  /\ installDirExists' = TRUE
  /\ commands' = UpdateCommands
  /\ noAutoLogin' = FALSE
  /\ runPc' = "file"
  /\ UNCHANGED <<installDirAbs, runEnd, fvars, procAlive, currentPty, killed,
                 errCode>>
  /\ UNCHANGED <<qvars, pvars, ivars, ovars>>

\* ------------------------------------- SteamCmd.init and the constructor
Platforms == {"win32", "darwin", "linux", "aix"}

Supported == {"win32", "darwin", "linux"}

\* No constructor call was made; process.platform is `p`.
CtorIdle(p) ==
  /\ initialising = FALSE
  /\ platform = p
  /\ pendingInits = 0
  /\ initsDone = 0
  /\ instances = 0
  /\ directCalls = 0
  /\ directBuilt = FALSE
  /\ ctorLast = [by |-> "none", threw |-> FALSE]

\* `SteamCmd.#initialising = false` in the constructor.
FlagKept(flag) == flag
FlagAfterConstructor(flag) == FALSE

\* The constructor, called with #initialising = flag on platform p: whether
\* it threw, whether it returned an instance, and #initialising afterwards.
Constructor(flag, p) ==
  IF ~flag
    THEN [threw |-> TRUE, built |-> FALSE, flag |-> flag]
    ELSE [threw |-> p \notin Supported, built |-> p \in Supported,
          flag |-> FlagAfterConstructor(flag)]

\* SteamCmd.init up to its first await: the flag is set and the constructor
\* is called, in one synchronous stretch.
InitCall ==
  /\ initsDone < MaxInitCalls
  /\ initsDone' = initsDone + 1
  /\ LET r == Constructor(TRUE, platform)
     IN /\ initialising' = r.flag
        /\ ctorLast' = [by |-> "init", threw |-> r.threw]
        /\ pendingInits' = IF r.built THEN pendingInits + 1 ELSE pendingInits
  /\ UNCHANGED <<platform, instances, directCalls, directBuilt>>
  /\ UNCHANGED <<qvars, pvars, rvars, ovars>>

\* downloadSteamCmd and the test run of an init call succeed: init resolves
\* with the instance.
InitResolved ==
  /\ pendingInits > 0
  /\ pendingInits' = pendingInits - 1
  /\ instances' = instances + 1
  /\ UNCHANGED <<initialising, platform, initsDone, directCalls, directBuilt,
                 ctorLast>>
  /\ UNCHANGED <<qvars, pvars, rvars, ovars>>

\* downloadSteamCmd or the test run rejects: init rejects.
InitRejected ==
  /\ pendingInits > 0
  /\ pendingInits' = pendingInits - 1
  /\ UNCHANGED <<initialising, platform, initsDone, instances, directCalls,
                 directBuilt, ctorLast>>
  /\ UNCHANGED <<qvars, pvars, rvars, ovars>>

\* `new SteamCmd(...)` outside init.
DirectNew ==
  /\ directCalls < MaxDirectCalls
  /\ directCalls' = directCalls + 1
  /\ LET r == Constructor(initialising, platform)
     IN /\ initialising' = r.flag
        /\ ctorLast' = [by |-> "direct", threw |-> r.threw]
        /\ directBuilt' = (directBuilt \/ r.built)
  /\ UNCHANGED <<platform, pendingInits, initsDone, instances>>
  /\ UNCHANGED <<qvars, pvars, rvars, ovars>>

\* process.platform is redefined.
PlatformChange ==
  /\ \E p \in Platforms \ {platform} : platform' = p
  /\ UNCHANGED <<initialising, pendingInits, initsDone, instances, directCalls,
                 directBuilt, ctorLast>>
  /\ UNCHANGED <<qvars, pvars, rvars, ovars>>

\* ------------------------------------------- SteamCmdError: construction
\* The values an exit code is drawn from: null and the integers up to MaxCode.
Codes == Null..MaxCode

\* No SteamCmdError has been constructed.
ErrIdle == err = <<>>

\* `this.exitCode = exitCode`
ExitCodeDropped(c) == NO_ERROR
ExitCodeField(c) == c

\* new SteamCmdError(c); arg records the argument.
SteamCmdErrorOf(c) ==
  [name |-> "SteamCmdError", exitCode |-> ExitCodeField(c),
   message |-> GetErrorMessage(c), arg |-> c]

NewSteamCmdError ==
  /\ \E c \in Codes : err' = <<SteamCmdErrorOf(c)>>
  /\ UNCHANGED <<qvars, pvars, rvars, ivars, gvars, tvars, lvars>>

\* ------------------------------- SteamCmd.updateApp: reading the output
\* An output line is of the progress shape ("p1", "p2") or not ("x").  A data
\* chunk holds one or more whole lines; its text is a sequence of lines, with
\* a line feed between two of them.
Lines == {"p1", "p2", "x"}

IsProgress(l) == l \in {"p1", "p2"}

Chunks == UNION {[1..n -> Lines] : n \in 1..MaxChunkLines}

Outputs == UNION {[1..n -> Chunks] : n \in 0..MaxChunks}

\* The process has `out` to emit and nothing was read.
ProgressIdle(out) ==
  /\ chunks = out
  /\ pending = <<>>
  /\ emitted = <<>>
  /\ events = <<>>

\* The progress lines of a chunk, in order.
RECURSIVE ProgressLines(_)
ProgressLines(ch) ==
  IF ch = <<>> THEN <<>>
  ELSE (IF IsProgress(Head(ch)) THEN <<Head(ch)>> ELSE <<>>) \o
       ProgressLines(Tail(ch))

\* The data listener: line endings are normalised and the text is trimmed;
\* the line feeds between the lines of the chunk stay, and the whole text is
\* enqueued as one item.
Normalised(ch) == ch

\* progressRegex.exec(line): the pattern holds no line feed and ends with `$`,
\* which without the m flag matches at the end of the text only, so a match
\* lies in the last line of the text.
RegexExec(text) ==
  IF IsProgress(text[Len(text)]) THEN <<text[Len(text)]>> ELSE <<>>

\* The process emits its next chunk and the data listener enqueues its text;
\* updateApp's loop takes one item at a time.
ProgressData ==
  /\ chunks # <<>>
  /\ pending = <<>>
  /\ pending' = <<Normalised(Head(chunks))>>
  /\ emitted' = emitted \o ProgressLines(Head(chunks))
  /\ chunks' = Tail(chunks)
  /\ UNCHANGED events
  /\ UNCHANGED <<qvars, pvars, rvars, ivars, evars, tvars, lvars>>

\* The body of updateApp's loop: test the item, yield an event on a match.
ProgressLine ==
  /\ pending # <<>>
  /\ events' = events \o RegexExec(pending[1])
  /\ pending' = <<>>
  /\ UNCHANGED <<chunks, emitted>>
  /\ UNCHANGED <<qvars, pvars, rvars, ivars, evars, tvars, lvars>>

\* ------------------------------------------ two runs on one instance
\* Two run generators of one SteamCmd instance share #currentSteamCmdPty.
\* Each run is followed from its first pull to its end; the line sequence is
\* left out.
Runs == {"r1", "r2"}

TwoIdle ==
  /\ slot = "null"
  /\ runs = [r \in Runs |-> [pc |-> "idle", alive |-> FALSE, killed |-> FALSE]]
  /\ lastStep = "other"

\* The first pull: up to `await file()`.
TwoStart(r) ==
  /\ runs[r].pc = "idle"
  /\ runs' = [runs EXCEPT ![r].pc = "file"]
  /\ lastStep' = "other"
  /\ UNCHANGED slot
  /\ UNCHANGED <<qvars, pvars, rvars, ivars, evars, gvars, lvars>>

\* The file is made and written, the process is spawned and stored in
\* #currentSteamCmdPty.
TwoSpawn(r) ==
  /\ runs[r].pc = "file"
  /\ runs' = [runs EXCEPT ![r].pc = "lines", ![r].alive = TRUE]
  /\ slot' = r
  /\ lastStep' = "other"
  /\ UNCHANGED <<qvars, pvars, rvars, ivars, evars, gvars, lvars>>

\* The process of run r exits.
TwoExit(r) ==
  /\ runs[r].alive
  /\ runs' = [runs EXCEPT ![r].alive = FALSE]
  /\ lastStep' = "other"
  /\ UNCHANGED slot
  /\ UNCHANGED <<qvars, pvars, rvars, ivars, evars, gvars, lvars>>

\* The lines of run r have ended and its exit promise is fulfilled:
\* `this.#currentSteamCmdPty = null`, whichever process the slot holds.
TwoObserve(r) ==
  /\ runs[r].pc = "lines"
  /\ ~runs[r].alive
  /\ runs' = [runs EXCEPT ![r].pc = "done"]
  /\ slot' = "null"
  /\ lastStep' = "other"
  /\ UNCHANGED <<qvars, pvars, rvars, ivars, evars, gvars, lvars>>

\* The consumer of run r returns early: the finally block runs, the slot is
\* left as it is.
TwoReturn(r) ==
  /\ runs[r].pc = "lines"
  /\ runs' = [runs EXCEPT ![r].pc = "done"]
  /\ lastStep' = "other"
  /\ UNCHANGED slot
  /\ UNCHANGED <<qvars, pvars, rvars, ivars, evars, gvars, lvars>>

\* The processes cleanup() kills: the one the slot holds.
KillsEvery(s) == Runs
KillTargets(s) == IF s = "null" THEN {} ELSE {s}

\* cleanup(): kill what the slot holds, clear the slot.
TwoCleanup ==
  /\ runs' = [r \in Runs |->
               IF r \in KillTargets(slot)
                 THEN [runs[r] EXCEPT !.killed = (runs[r].killed \/ runs[r].alive)]
                 ELSE runs[r]]
  /\ slot' = "null"
  /\ lastStep' = "cleanup"
  /\ UNCHANGED <<qvars, pvars, rvars, ivars, evars, gvars, lvars>>

\* ------------------------------------ login and run, one after the other
\* The usernames a caller may log in with; the first is the stored default.
Users == {Username, "alice", "bob"}

\* `login "${...}"`
LoginLineOf(u) == <<"login ", "\"", u, "\"">>

\* `const allCommands = [...]` with the stored username u.
AllCommandsAs(u, c, nal) ==
  <<ShutdownLine, NoPromptLine, IF nal THEN <<>> ELSE LoginLineOf(u)>> \o c \o
  <<QuitLine>>

\* An instance as SteamCmd.init leaves it, and a caller holding an array.
SessIdle(arr) ==
  /\ username = Username
  /\ sessPc = "idle"
  /\ loginArg = Username
  /\ callerArray = arr
  /\ given = arr
  /\ scripts = <<>>
  /\ nLogins = 0
  /\ sessLast = [op |-> "none", ok |-> TRUE, user |-> Username,
                 before |-> Username]

\* login(u): the login command is run with noAutoLogin.
LoginCall ==
  /\ sessPc = "idle"
  /\ nLogins < MaxLogins
  /\ \E u \in Users : loginArg' = u
  /\ sessPc' = "login"
  /\ nLogins' = nLogins + 1
  /\ UNCHANGED <<username, callerArray, given, scripts, sessLast>>
  /\ UNCHANGED notS

\* The for-await over the run ends without a throw:
\* `this.#username = username`
LoginSucceeded ==
  /\ sessPc = "login"
  /\ \E code \in ExitCodes : ~Failing(code)
  /\ username' = loginArg
  /\ sessPc' = "idle"
  /\ sessLast' = [op |-> "login", ok |-> TRUE, user |-> loginArg,
                  before |-> username]
  /\ UNCHANGED <<loginArg, callerArray, given, scripts, nLogins>>
  /\ UNCHANGED notS

\* The stored username when the run throws: the assignment is not reached.
UsernameOverwritten(old, new) == new
UsernameOnThrow(old, new) == old

\* The run throws (a failing exit code, or no process): login rejects.
LoginFailed ==
  /\ sessPc = "login"
  /\ \E code \in ExitCodes : Failing(code)
  /\ username' = UsernameOnThrow(username, loginArg)
  /\ sessPc' = "idle"
  /\ sessLast' = [op |-> "login", ok |-> FALSE, user |-> loginArg,
                  before |-> username]
  /\ UNCHANGED <<loginArg, callerArray, given, scripts, nLogins>>
  /\ UNCHANGED notS

\* What building allCommands leaves in the caller's array: the spread copies
\* its elements.  ArrayMutated is the unshift/unshift/push of older versions.
ArrayMutated(c) == <<NoPromptLine, ShutdownLine>> \o c \o <<QuitLine>>
ArrayAfterRun(c) == c

\* run(callerArray) up to the end of appendFile: the script is built from the
\* array and the stored username and written.
SessRunCall ==
  /\ sessPc = "idle"
  /\ Len(scripts) < MaxRuns
  /\ scripts' = Append(scripts,
                  [user |-> username,
                   text |-> JoinLines(AllCommandsAs(username, callerArray, FALSE))
                            \o <<NL>>])
  /\ callerArray' = ArrayAfterRun(callerArray)
  /\ sessPc' = "run"
  /\ UNCHANGED <<username, loginArg, given, nLogins, sessLast>>
  /\ UNCHANGED notS

\* The run ends, normally or with a SteamCmdError.
SessRunEnds ==
  /\ sessPc = "run"
  /\ \E code \in ExitCodes :
       sessLast' = [op |-> "run", ok |-> ~Failing(code), user |-> username,
                    before |-> username]
  /\ sessPc' = "idle"
  /\ UNCHANGED <<username, loginArg, callerArray, given, scripts, nLogins>>
  /\ UNCHANGED notS

\* --------------------------- getPtyDataIterator: the data listener's text
\* A text is a sequence of characters.  "a" is a visible character, " " a
\* blank, CR and LF the carriage return and the line feed, and ESC stands
\* for one whole ANSI escape sequence.
CR == "\r"

LF == "\n"

ESC == "ESC"

Chars == {"a", " ", CR, LF, ESC}

RawChunks == UNION {[1..n -> Chars] : n \in 1..MaxChunkLen}

\* .replace(/\r\n/g, '\n'): every CR LF pair becomes LF.
RECURSIVE ReplaceCrLf(_)
ReplaceCrLf(t) ==
  IF t = <<>> THEN <<>>
  ELSE IF Len(t) >= 2 /\ t[1] = CR /\ t[2] = LF
    THEN <<LF>> \o ReplaceCrLf(SubSeq(t, 3, Len(t)))
  ELSE <<t[1]>> \o ReplaceCrLf(Tail(t))

\* .replace(/\r/, ''): without the g flag the first CR only is removed.
RECURSIVE RemoveCr(_)
RemoveCr(t) ==
  IF t = <<>> THEN <<>>
  ELSE IF t[1] = CR THEN Tail(t)
  ELSE <<t[1]>> \o RemoveCr(Tail(t))

\* What String.prototype.trim() takes for white space.
IsSpace(c) == c \in {" ", CR, LF}

RECURSIVE TrimStart(_)
TrimStart(t) ==
  IF t = <<>> THEN <<>>
  ELSE IF IsSpace(t[1]) THEN TrimStart(Tail(t))
  ELSE t

RECURSIVE TrimEnd(_)
TrimEnd(t) ==
  IF t = <<>> THEN <<>>
  ELSE IF IsSpace(t[Len(t)]) THEN TrimEnd(SubSeq(t, 1, Len(t) - 1))
  ELSE t

\* .trim()
Trim(t) == TrimEnd(TrimStart(t))

\* stripAnsi(text): the escape sequences are taken out.
StripAnsi(t) == SelectSeq(t, LAMBDA c : c # ESC)

\* The item the listener makes of a chunk: the chunk itself in raw mode, else
\* the chunk with its line endings normalised, trimmed, and then stripped of
\* escape sequences.
ListenerItem(raw, t) ==
  IF raw THEN t ELSE StripAnsi(Trim(RemoveCr(ReplaceCrLf(t))))

\* A data event with chunk t is to come, or (in = <<>>) none.
CleanIdle(in, raw) ==
  /\ cleanIn = in
  /\ rawMode = raw
  /\ cleanOut = <<>>

\* The data event: the listener enqueues its item.
CleanData ==
  /\ cleanIn # <<>>
  /\ cleanOut' = <<ListenerItem(rawMode, cleanIn[1])>>
  /\ cleanIn' = <<>>
  /\ UNCHANGED rawMode
  /\ UNCHANGED notC

\* --------------------------------------- main.js: the stream-based run
\* An stdout text is a sequence of tokens: LF, a token "x" of other output,
\* and the marker tokens M5, M63, M2 and M3, which stand for the four texts
\* the data handler looks for.  The texts
\* hold no escape sequence and no carriage return, so stripAnsi and the
\* replacing of CR LF leave them as they are.
M5 == "FAILED with result code 5"

M63 == "FAILED with result code 63"

M2 == "FAILED with result code 2"

M3 == "FAILED with result code 3"

StreamTokens == {"x", M5, M63, M2, M3, LF}

StreamChunks == UNION {[1..n -> StreamTokens] : n \in 1..MaxStreamLen}

StreamOutputs == UNION {[1..n -> StreamChunks] : n \in 0..MaxStreamChunks}

\* The codes the process itself may close with.
CloseCodes == {NO_ERROR, UNKNOWN_ERROR}

\* text.split('\n'): the pieces between the line feeds, at least one.
RECURSIVE SplitLf(_)
SplitLf(t) ==
  IF \A i \in 1..Len(t) : t[i] # LF THEN <<t>>
  ELSE LET k == CHOOSE i \in 1..Len(t) :
                  t[i] = LF /\ \A j \in 1..(i - 1) : t[j] # LF
       IN <<SubSeq(t, 1, k - 1)>> \o SplitLf(SubSeq(t, k + 1, Len(t)))

\* line.includes(marker)
Includes(ln, marker) == \E i \in 1..Len(ln) : ln[i] = marker

\* Whether a line is a failure-marker line, and the code of its marker
\* (the if/else chain tests 5, then 63, then 2, then 3).
IsMarkerLine(ln) == \E m \in {M5, M63, M2, M3} : Includes(ln, m)

MarkerCode(ln) ==
  IF Includes(ln, M5) THEN INVALID_PASSWORD
  ELSE IF Includes(ln, M63) THEN STEAM_GUARD_CODE_REQUIRED
  ELSE IF Includes(ln, M2) THEN ALREADY_LOGGED_IN
  ELSE NO_CONNECTION

\* The body of the for loop on one line: a marker line assigns exitCode.
CodeAfterLine(code, ln) ==
  IF IsMarkerLine(ln) THEN MarkerCode(ln) ELSE code

\* The for loop over the finished lines.
RECURSIVE CodeAfterLines(_, _)
CodeAfterLines(code, lns) ==
  IF lns = <<>> THEN code
  ELSE CodeAfterLines(CodeAfterLine(code, Head(lns)), Tail(lns))

\* The codes of the marker lines among the finished lines, in order.
RECURSIVE MarkerCodes(_)
MarkerCodes(lns) ==
  IF lns = <<>> THEN <<>>
  ELSE (IF IsMarkerLine(Head(lns)) THEN <<MarkerCode(Head(lns))>> ELSE <<>>)
       \o MarkerCodes(Tail(lns))

\* The process has `out` to write and has written nothing.
StreamIdle(out) ==
  /\ sChunks = out
  /\ currLine = <<>>
  /\ sExitCode = NO_ERROR
  /\ seen = <<>>
  /\ sReported = <<>>

\* stdout 'data': the chunk is appended to currLine, the text is split, the
\* last piece is kept as currLine and the finished lines are examined.
StreamData ==
  /\ sChunks # <<>>
  /\ sReported = <<>>
  /\ LET pieces == SplitLf(currLine \o Head(sChunks))
         lns == SubSeq(pieces, 1, Len(pieces) - 1)
     IN /\ currLine' = pieces[Len(pieces)]
        /\ sExitCode' = CodeAfterLines(sExitCode, lns)
        /\ seen' = seen \o MarkerCodes(lns)
  /\ sChunks' = Tail(sChunks)
  /\ UNCHANGED sReported
  /\ UNCHANGED notM

\* The process's 'close' with its own code, after all its output: exitCode
\* takes the process's code if it is still NO_ERROR, and is emitted.
StreamClose ==
  /\ sChunks = <<>>
  /\ sReported = <<>>
  /\ \E code \in CloseCodes :
       LET final == IF sExitCode = NO_ERROR THEN code ELSE sExitCode
       IN /\ sExitCode' = final
          /\ sReported' = <<[code |-> final, own |-> code]>>
  /\ UNCHANGED <<sChunks, currLine, seen>>
  /\ UNCHANGED notM

\* ------------------------------- class-implementation.js: _promiseToRetry
\* The retry counts of the option, and the values an attempt may give.
RetryCounts == 0..MaxRetries

RetryValues == {"v1", "v2"}

\* _promiseToRetry has not been called.
RetryIdle ==
  /\ retriesOpt = 0
  /\ retries = 0
  /\ attempts = <<>>
  /\ retryPc = "idle"
  /\ retryValue = <<>>

\* _promiseToRetry(func) is called: `let retries = this._options.retries`
RetryCall(n) ==
  /\ retryPc = "idle"
  /\ retriesOpt' = n
  /\ retries' = n
  /\ retryPc' = "loop"
  /\ UNCHANGED <<attempts, retryValue>>
  /\ UNCHANGED notY

\* A loop that goes round once more.
TestsInclusive(r) == r >= 0

\* The test of `while (retries--)`: the value before the decrement, as a
\* boolean.
LoopTest(r) == r # 0

\* `while (retries--)` holds: func is called.
RetryLoop ==
  /\ retryPc = "loop"
  /\ LoopTest(retries)
  /\ retries' = retries - 1
  /\ retryPc' = "attempt"
  /\ UNCHANGED <<retriesOpt, attempts, retryValue>>
  /\ UNCHANGED notY

\* `while (retries--)` fails: the throw after the loop.
RetryGiveUp ==
  /\ retryPc = "loop"
  /\ ~LoopTest(retries)
  /\ retries' = retries - 1
  /\ retryPc' = "rejected"
  /\ UNCHANGED <<retriesOpt, attempts, retryValue>>
  /\ UNCHANGED notY

\* The attempt resolves: `return await func(...args)`
RetrySucceeds ==
  /\ retryPc = "attempt"
  /\ \E v \in RetryValues :
       /\ attempts' = Append(attempts, v)
       /\ retryValue' = <<v>>
  /\ retryPc' = "resolved"
  /\ UNCHANGED <<retriesOpt, retries>>
  /\ UNCHANGED notY

\* The attempt throws or rejects: the catch block starts the delay.
RetryFails ==
  /\ retryPc = "attempt"
  /\ attempts' = Append(attempts, "fail")
  /\ retryPc' = "delay"
  /\ UNCHANGED <<retriesOpt, retries, retryValue>>
  /\ UNCHANGED notY

\* The timeout of the delay fires.
RetryDelayOver ==
  /\ retryPc = "delay"
  /\ retryPc' = "loop"
  /\ UNCHANGED <<retriesOpt, retries, attempts, retryValue>>
  /\ UNCHANGED notY

\* ------------------------------------------- part_005: _chunksToLines
\* A text is a sequence of the characters "a", CR and LF; a chunking of a
\* text is a sequence of non-empty chunks.
LineChars == {"a", CR, LF}

RECURSIVE Chunkings(_)
Chunkings(n) ==
  IF n = 0 THEN {<<>>}
  ELSE {<<>>} \cup
       UNION {{<<c>> \o rest : rest \in Chunkings(n - k),
                                c \in [1..k -> LineChars]} : k \in 1..n}

\* The chunks of a sequence, concatenated.
RECURSIVE Concat(_)
Concat(cs) == IF cs = <<>> THEN <<>> ELSE Head(cs) \o Concat(Tail(cs))

\* previous.indexOf('\n'), counted from 1; 0 when there is none.
IndexOfLf(t) ==
  IF \A i \in 1..Len(t) : t[i] # LF THEN 0
  ELSE CHOOSE i \in 1..Len(t) : t[i] = LF /\ \A j \in 1..(i - 1) : t[j] # LF

\* _chunksToLines has not been called.
LinesIdle ==
  /\ lChunks = <<>>
  /\ previous = <<>>
  /\ yielded = <<>>
  /\ lText = <<>>
  /\ lPc = "idle"

\* _chunksToLines(chunkIterable) is called and pulled.
LinesCall(cs) ==
  /\ lPc = "idle"
  /\ lChunks' = cs
  /\ lText' = Concat(cs)
  /\ lPc' = "take"
  /\ UNCHANGED <<previous, yielded>>
  /\ UNCHANGED notK

\* The next chunk: `previous += chunk.replace(/\r\n/g, '\n')`
LinesTake ==
  /\ lPc = "take"
  /\ lChunks # <<>>
  /\ previous' = previous \o ReplaceCrLf(Head(lChunks))
  /\ lChunks' = Tail(lChunks)
  /\ lPc' = "split"
  /\ UNCHANGED <<yielded, lText>>
  /\ UNCHANGED notK

\* The inner loop finds a line feed: the line up to it is yielded.
LinesYield ==
  /\ lPc = "split"
  /\ IndexOfLf(previous) > 0
  /\ yielded' = Append(yielded, SubSeq(previous, 1, IndexOfLf(previous)))
  /\ previous' = SubSeq(previous, IndexOfLf(previous) + 1, Len(previous))
  /\ UNCHANGED <<lChunks, lText, lPc>>
  /\ UNCHANGED notK

\* The inner loop finds none: `break`
LinesBreak ==
  /\ lPc = "split"
  /\ IndexOfLf(previous) = 0
  /\ lPc' = "take"
  /\ UNCHANGED <<lChunks, previous, yielded, lText>>
  /\ UNCHANGED notK

\* The chunks have ended: what is left in `previous` is yielded.
LinesEnd ==
  /\ lPc = "take"
  /\ lChunks = <<>>
  /\ yielded' = IF previous # <<>> THEN Append(yielded, previous) ELSE yielded
  /\ previous' = <<>>
  /\ lPc' = "done"
  /\ UNCHANGED <<lChunks, lText>>
  /\ UNCHANGED notK

\* ----------------------------------- main.js: the legacy getErrorMessage
\* The value of a property an object does not have.
JsUndefined == -2

\* static EXIT_CODES of main.js
LegacyExitCodes ==
  [PROCESS_KILLED |-> Null, NO_ERROR |-> NO_ERROR,
   UNKNOWN_ERROR |-> UNKNOWN_ERROR, ALREADY_LOGGED_IN |-> ALREADY_LOGGED_IN,
   NO_CONNECTION |-> NO_CONNECTION, INVALID_PASSWORD |-> INVALID_PASSWORD,
   STEAM_GUARD_CODE_REQUIRED |-> STEAM_GUARD_CODE_REQUIRED]

\* SteamCmd.EXIT_CODES.<key>
ExitCodeNamed(key) ==
  IF key \in DOMAIN LegacyExitCodes THEN LegacyExitCodes[key] ELSE JsUndefined

\* The arguments: undefined, null and the integers up to MaxCode.
LegacyArgs == JsUndefined..MaxCode

\* static getErrorMessage(exitCode): the switch compares with ===, case by
\* case; the last case names the key TEAM_GUARD_CODE_REQUIRED.
LegacyGetErrorMessage(code) ==
  IF code = ExitCodeNamed("PROCESS_KILLED")
    THEN [text |-> "The SteamCMD process was killed prematurely", raw |-> <<>>]
  ELSE IF code = ExitCodeNamed("NO_ERROR")
    THEN [text |-> "No error", raw |-> <<>>]
  ELSE IF code = ExitCodeNamed("UNKNOWN_ERROR")
    THEN [text |-> "An unknown error occurred", raw |-> <<>>]
  ELSE IF code = ExitCodeNamed("ALREADY_LOGGED_IN")
    THEN [text |-> "A user was already logged into StremCMD", raw |-> <<>>]
  ELSE IF code = ExitCodeNamed("NO_CONNECTION")
    THEN [text |-> "SteamCMD cannot connect to the internet", raw |-> <<>>]
  ELSE IF code = ExitCodeNamed("INVALID_PASSWORD")
    THEN [text |-> "Invalid password", raw |-> <<>>]
  ELSE IF code = ExitCodeNamed("TEAM_GUARD_CODE_REQUIRED")
    THEN [text |-> "A Steam Guard code was required to log in", raw |-> <<>>]
  ELSE [text |-> "An unknown error occurred. Exit code: ", raw |-> <<code>>]

\* getErrorMessage has not been called.
LegacyIdle == legacyMsg = <<>>

\* SteamCmd.getErrorMessage(code)
LegacyMessageCall ==
  /\ \E code \in LegacyArgs :
       legacyMsg' = <<[arg |-> code, message |-> LegacyGetErrorMessage(code)]>>
  /\ UNCHANGED notH

\* Nothing of the layers above has happened.
LaterIdle ==
  /\ SessIdle(<<>>)
  /\ CleanIdle(<<>>, FALSE)
  /\ StreamIdle(<<>>)
  /\ RetryIdle
  /\ LinesIdle
  /\ LegacyIdle

OtherIdle == ErrIdle /\ ProgressIdle(<<>>) /\ TwoIdle /\ LaterIdle

\* ------------------------------------------------------------ specifications
\* The queue alone: a client calls enqueue, dequeue, next and close at any
\* point between two promise jobs.
Init ==
  /\ \E n \in -1..MaxInit : QInit(n)
  /\ PtyIdle /\ RunIdle /\ UpdIdle(TRUE) /\ CtorIdle("linux") /\ OtherIdle

ClientEnqueue == Enqueue /\ UNCHANGED <<pvars, rvars, ivars, ovars>>

ClientDequeue == Dequeue /\ UNCHANGED <<pvars, rvars, ivars, ovars>>

ClientNext == IterNext /\ UNCHANGED <<pvars, rvars, ivars, ovars>>

ClientClose == Close /\ UNCHANGED <<pvars, rvars, ivars, ovars>>

PromiseJob == RunJob /\ UNCHANGED <<pvars, rvars, ivars, ovars>>

Next == ClientEnqueue \/ ClientDequeue \/ ClientNext \/ ClientClose \/ PromiseJob

Spec == Init /\ [][Next]_vars

\* The same client on a queue built as getPtyDataIterator builds it,
\* `new AsyncQueue()`.
InitPty ==
  /\ QInit(-1)
  /\ PtyIdle /\ RunIdle /\ UpdIdle(TRUE) /\ CtorIdle("linux") /\ OtherIdle

SpecFresh == InitPty /\ [][Next]_vars

\* The line sequence and the exit promise of a pseudo terminal, and their one
\* consumer.
ConsumerPull == PtyPull /\ UNCHANGED <<xvars, rvars, ivars, ovars>>

DataEvent == PtyData /\ UNCHANGED <<xvars, rvars, ivars, ovars>>

ExitEvent ==
  /\ \E code \in ExitCodes \cup KillCodes : PtyExitWith(code)
  /\ UNCHANGED <<rvars, ivars, ovars>>

ExitPromise ==
  /\ ~exitListener
  /\ ~exitResolved
  /\ ~ptyExited
  /\ ExitPromiseCall
  /\ UNCHANGED <<onData, onExit, ptyExited, nData, lateData>>
  /\ UNCHANGED <<qvars, rvars, ivars, ovars>>

NextPty == ConsumerPull \/ DataEvent \/ ExitEvent \/ ExitPromise \/ PromiseJob

SpecPty == InitPty /\ [][NextPty]_vars

\* One run or one updateApp on an instance, its consumer, and a caller that
\* may kill the process.
InitRun ==
  /\ QInit(-1)
  /\ PtyIdle /\ RunIdle /\ CtorIdle("linux") /\ OtherIdle
  /\ \E abs \in BOOLEAN : UpdIdle(abs)

ProcessExit == \E code \in ExitCodes \cup KillCodes : RunExit(code)

NextRun ==
  \/ RunCall
  \/ RunStart
  \/ RunFileCreated
  \/ RunFileFailed
  \/ RunWriteFailed
  \/ RunSpawnFailed
  \/ RunSpawned
  \/ RunData
  \/ ProcessExit
  \/ RunLine
  \/ RunNextLine
  \/ RunLinesEnd
  \/ RunExitObserved
  \/ RunReturn
  \/ RunCleanup
  \/ Cleanup
  \/ KillDirect
  \/ UpdateCall
  \/ UpdateStart
  \/ UpdateMkdirFailed
  \/ UpdateRun
  \/ PromiseJob

SpecRun == InitRun /\ [][NextRun]_vars

\* The same, with the scheduling the event loop gives: promise jobs run, a
\* killed process fires its exit event, the generator takes its steps, and
\* the consumer goes on pulling until it has what MaxCalls allows and then
\* returns.  A process that nobody kills may run forever.
SpecRunLive ==
  /\ SpecRun
  /\ WF_vars(PromiseJob)
  /\ WF_vars(killed /\ ProcessExit)
  /\ WF_vars(RunLine \/ RunLinesEnd \/ RunExitObserved \/ RunCleanup)
  /\ WF_vars(RunNextLine \/ RunReturn)

\* SteamCmd.init calls and direct constructor calls in any order.
InitCtor ==
  /\ QInit(-1)
  /\ PtyIdle /\ RunIdle /\ UpdIdle(TRUE) /\ OtherIdle
  /\ \E p \in Platforms : CtorIdle(p)

NextCtor == InitCall \/ InitResolved \/ InitRejected \/ DirectNew \/ PlatformChange

SpecCtor == InitCtor /\ [][NextCtor]_vars

\* A single consumer of a queue that is never closed: it calls dequeue(), or
\* next() of the iterator, when its call before has settled, and goes on doing
\* so; a producer enqueues at any point between two promise jobs.
ConsumerReady == IF calls = <<>> THEN TRUE ELSE Settled(calls[Len(calls)])

ConsumerDequeue == ConsumerReady /\ ClientDequeue

ConsumerNext == ConsumerReady /\ ClientNext

NextConsumer == ClientEnqueue \/ ConsumerDequeue \/ ConsumerNext \/ PromiseJob

SpecConsumer ==
  /\ InitPty
  /\ [][NextConsumer]_vars
  /\ WF_vars(PromiseJob)
  /\ WF_vars(ConsumerDequeue \/ ConsumerNext)

\* SteamCmdError objects are constructed from any exit code.
SpecError == InitPty /\ [][NewSteamCmdError]_vars

\* updateApp reads an output that the process emits in chunks.
InitProgress ==
  /\ QInit(-1)
  /\ PtyIdle /\ RunIdle /\ UpdIdle(TRUE) /\ CtorIdle("linux")
  /\ ErrIdle /\ TwoIdle /\ LaterIdle
  /\ \E out \in Outputs : ProgressIdle(out)

NextProgress == ProgressData \/ ProgressLine

SpecProgress == InitProgress /\ [][NextProgress]_vars

\* Two overlapping runs on one instance, and a caller of cleanup().
FirstPull == \E r \in Runs : TwoStart(r)

Spawned == \E r \in Runs : TwoSpawn(r)

Exited == \E r \in Runs : TwoExit(r)

Observed == \E r \in Runs : TwoObserve(r)

Returned == \E r \in Runs : TwoReturn(r)

NextTwo == FirstPull \/ Spawned \/ Exited \/ Observed \/ Returned \/ TwoCleanup

SpecTwo == InitPty /\ [][NextTwo]_vars

\* login and run calls on one instance, one after the other; the caller
\* passes the same array to every run.
BaseIdle ==
  /\ QInit(-1)
  /\ PtyIdle /\ RunIdle /\ UpdIdle(TRUE) /\ CtorIdle("linux")
  /\ ErrIdle /\ ProgressIdle(<<>>) /\ TwoIdle

InitSession ==
  /\ BaseIdle
  /\ \E arr \in CommandLists : SessIdle(arr)
  /\ CleanIdle(<<>>, FALSE) /\ StreamIdle(<<>>)
  /\ RetryIdle /\ LinesIdle /\ LegacyIdle

NextSession == LoginCall \/ LoginSucceeded \/ LoginFailed \/ SessRunCall \/ SessRunEnds

SpecSession == InitSession /\ [][NextSession]_vars

\* The data listener receives one chunk, in cleaned or in raw mode.
InitClean ==
  /\ BaseIdle
  /\ SessIdle(<<>>)
  /\ \E t \in RawChunks, raw \in BOOLEAN : CleanIdle(<<t>>, raw)
  /\ StreamIdle(<<>>) /\ RetryIdle /\ LinesIdle /\ LegacyIdle

SpecClean == InitClean /\ [][CleanData]_vars

\* The stream-based run reads an stdout text in chunks, then the process
\* closes.
InitStream ==
  /\ BaseIdle
  /\ SessIdle(<<>>) /\ CleanIdle(<<>>, FALSE)
  /\ \E out \in StreamOutputs : StreamIdle(out)
  /\ RetryIdle /\ LinesIdle /\ LegacyIdle

NextStream == StreamData \/ StreamClose

SpecStream == InitStream /\ [][NextStream]_vars

\* One call of _promiseToRetry; every attempt settles and the timer of the
\* delay fires.
RetryStart == \E n \in RetryCounts : RetryCall(n)

RetrySteps ==
  RetryLoop \/ RetryGiveUp \/ RetrySucceeds \/ RetryFails \/ RetryDelayOver

NextRetry == RetryStart \/ RetrySteps

SpecRetry == InitPty /\ [][NextRetry]_vars /\ WF_vars(RetrySteps)

\* One call of _chunksToLines on a chunked text, pulled to its end.
LinesStart == \E cs \in Chunkings(MaxTextLen) : LinesCall(cs)

NextLines == LinesStart \/ LinesTake \/ LinesYield \/ LinesBreak \/ LinesEnd

SpecLines == InitPty /\ [][NextLines]_vars

\* Calls of the legacy getErrorMessage.
SpecLegacy == InitPty /\ [][LegacyMessageCall]_vars

\* ------------------------------------------------------------------ claims
\* The calls of the iterator's next().
NextCalls == {c \in 1..Len(calls) : calls[c].kind = "next"}

\* C1: with one consumer on an open queue the k-th dequeue to resolve returns
\* the k-th item that entered the queue (the calls of one consumer resolve in
\* the order they were made), and the iterator hands on what its dequeue got.
C1_FifoDelivery ==
  (~multi /\ ~isClosed) =>
    \A c \in 1..Len(calls) :
      /\ calls[c].st = "resolved" => calls[c].val = c
      /\ calls[c].out = "value" => calls[c].outVal = c

\* C2: when the line sequence has ended, every chunk the data listener
\* enqueued has been yielded to the consumer.
C2_NoFinalOutputDropped ==
  (\E c \in NextCalls : calls[c].out = "done") =>
    \A i \in 1..nItems : \E c \in NextCalls :
      calls[c].out = "value" /\ calls[c].outVal = i

\* C3: no next() of the iterator ever settles with an error; a next() made on
\* a closed queue settles with done, and once the queue is closed and the
\* promise jobs have run, every next() has settled, with a value or with done.
C3_ClosureEndsIteration ==
  \A c \in NextCalls :
    /\ calls[c].out # "error"
    /\ calls[c].afterClose => calls[c].out \in {"pending", "done"}
    /\ (isClosed /\ jobs = <<>>) => calls[c].out \in {"value", "done"}

\* A next() that was waiting on the empty queue when it was closed has ended
\* with done, and so has a next() made after the close.
C3_Witness ==
  /\ jobs = <<>>
  /\ \E c \in NextCalls : calls[c].closedEmpty /\ calls[c].out = "done"
  /\ \E c \in NextCalls : calls[c].afterClose /\ calls[c].out = "done"

\* C4: a dequeue() called on a closed queue never resolves, and has rejected
\* once the promise jobs have run.
C4_DequeueAfterCloseRejects ==
  \A c \in 1..Len(calls) :
    calls[c].afterClose =>
      /\ calls[c].st # "resolved"
      /\ jobs = <<>> => calls[c].st = "rejected"

\* C5: a dequeue() that was pending on an empty queue when close() was called
\* never resolves, and has rejected once the promise jobs have run.
C5_PendingDequeueRejectsOnClose ==
  \A c \in 1..Len(calls) :
    calls[c].closedEmpty =>
      /\ calls[c].st # "resolved"
      /\ jobs = <<>> => calls[c].st = "rejected"

\* C6: a dequeue() made on an empty, open queue is pending for as long as no
\* enqueue and no close has happened since.
C6_EmptyDequeueStaysPending ==
  \A c \in 1..Len(calls) :
    calls[c].quiet =>
      calls[c].st = "pending" /\ calls[c].out \in {"pending", "none"}

\* C7: an enqueue() on a closed queue throws and changes nothing: the item is
\* not buffered, no dequeue promise is resolved and no promise job is queued.
C7_EnqueueOnClosedThrows ==
  [][(isClosed /\ last'.op = "enqueue") =>
       /\ last'.threw
       /\ queue' = queue
       /\ nItems' = nItems
       /\ dqFulfilled' = dqFulfilled
       /\ calls' = calls
       /\ jobs' = jobs]_vars

\* An enqueue() has been refused by a closed queue.
C7_Witness == isClosed /\ last.op = "enqueue" /\ last.threw

\* C8: no dequeue() and no next() returns an item that was in the buffer when
\* close() was called.
C8_DroppedNeverReturned ==
  \A c \in 1..Len(calls) :
    /\ calls[c].st = "resolved" => calls[c].val \notin dropped
    /\ calls[c].out = "value" => calls[c].outVal \notin dropped

\* close() found items in the buffer, and a dequeue() made afterwards has
\* settled.
C8_Witness ==
  /\ dropped # {}
  /\ \E c \in 1..Len(calls) : calls[c].afterClose /\ calls[c].st # "pending"

\* C9: a closed queue stays closed and empty whatever is called, and a close()
\* on a closed queue throws nothing and changes nothing.
C9_ClosedIsAbsorbing ==
  [][/\ isClosed' => queue' = <<>>
     /\ isClosed =>
          /\ isClosed'
          /\ closedFulfilled'
          /\ last'.op = "close" =>
               /\ ~last'.threw
               /\ queue' = queue
               /\ dqFulfilled' = dqFulfilled
               /\ calls' = calls
               /\ jobs' = jobs]_vars

\* close() has been called on a queue that was already closed and had taken
\* a dequeue() or a next() since its first close().
C9_Witness ==
  /\ isClosed
  /\ last.op = "close"
  /\ \E c \in 1..Len(calls) : calls[c].afterClose

\* C10: a run that has ended has no script file left, however it ended.
C10_ScriptFileRemoved == runPc = "done" => ~fileExists

\* A run whose script was written and whose consumer returned early has
\* ended, and the file is gone.
C10_Witness ==
  /\ runPc = "done"
  /\ runEnd = "return"
  /\ scriptWritten
  /\ ~fileExists

C12_ErrorAfterAllLines ==
  runEnd = "SteamCmdError" =>
    /\ ptyExited
    /\ exitResolved
    /\ calls[Len(calls)].out = "done"
    /\ \A i \in 1..nData : \E c \in NextCalls :
         calls[c].out = "value" /\ calls[c].outVal = i

\* The lines of a text: the pieces that end with a line feed, and what follows
\* the last line feed when that is not empty.
RECURSIVE LinesFrom(_, _)
LinesFrom(text, cur) ==
  IF text = <<>> THEN (IF cur = <<>> THEN <<>> ELSE <<cur>>)
  ELSE IF Head(text) = NL THEN <<cur>> \o LinesFrom(Tail(text), <<>>)
  ELSE LinesFrom(Tail(text), Append(cur, Head(text)))

ScriptLines == LinesFrom(script, <<>>)

C14_RunIsLazy ==
  runPc \in {"idle", "called"} =>
    /\ ~fileExists
    /\ ~scriptWritten
    /\ script = <<>>
    /\ ~procAlive
    /\ ~exitListener
    /\ calls = <<>>
    /\ currentPty = "null"

\* run was called with commands and nothing has been pulled.
C14_Witness ==
  /\ runPc = "called"
  /\ commands # <<>>

\* C15: while the spawned process is alive and cleanup() was not called the
\* reference holds its handle, and once the run has ended and the process has
\* exited the reference is null.
C15_ReferenceTracksProcess ==
  /\ (procAlive /\ ~killed) => currentPty = "pty"
  /\ (runPc = "done" /\ ~procAlive) => currentPty = "null"

\* C16: once the caller has killed the process of a run, the exit event
\* fires, the queue of the line sequence is closed and the run settles.
C16_KillSettlesRun == killed ~> (ptyExited /\ isClosed /\ runPc = "done")

\* A run whose process was killed has settled with what the exit promise
\* gave it.
C16_Witness ==
  /\ killed
  /\ runPc = "done"
  /\ runEnd \in {"normal", "SteamCmdError"}
  /\ procCode # <<>>

\* C17: a run whose process was killed by the caller throws a SteamCmdError
\* that carries the null outcome, and the message of that outcome is one of
\* its own: neither the fallback that prints the raw code nor the message of
\* UNKNOWN_ERROR.
C17_KilledRunSurfacesProcessKilled ==
  (killed /\ runEnd \in {"normal", "SteamCmdError"}) =>
    /\ errCode = <<Null>>
    /\ GetErrorMessage(Null).raw = <<>>
    /\ GetErrorMessage(Null).text # GetErrorMessage(UNKNOWN_ERROR).text

\* C18: once the exit event has fired, a promise of getPtyExitPromise that was
\* asked for before it is fulfilled with the code of the event, whatever the
\* consumer of the line sequence has done.
C18_ExitPromiseIndependent ==
  (ptyExited /\ (exitListener \/ exitResolved)) =>
    /\ exitResolved
    /\ <<exitCode>> = procCode

\* The exit promise is fulfilled with a failing code and the line sequence was
\* never pulled.
C18_Witness ==
  /\ ptyExited
  /\ exitResolved
  /\ exitCode = INVALID_PASSWORD
  /\ calls = <<>>

\* C19: no direct constructor call ever returns an instance: each one throws,
\* and #initialising is false between any two calls.
C19_DirectConstructionThrows ==
  /\ ~directBuilt
  /\ ~initialising
  /\ ctorLast.by = "direct" => ctorLast.threw

\* A direct constructor call has thrown after one init call resolved with an
\* instance and another failed.
C19_Witness ==
  /\ ctorLast.by = "direct"
  /\ ctorLast.threw
  /\ instances > 0
  /\ pendingInits = 0
  /\ initsDone > instances

\* C20: on an instance whose install directory is not absolute updateApp goes
\* no further than its TypeError, and when it has thrown it the install
\* directory, the script file and the process do not exist and the
\* live-process reference is null.
C20_RelativeInstallDirRejected ==
  /\ ~installDirAbs => updPc \in {"none", "called", "typeError"}
  /\ updPc = "typeError" =>
       /\ ~installDirAbs
       /\ ~installDirExists
       /\ ~fileExists
       /\ ~scriptWritten
       /\ script = <<>>
       /\ ~procAlive
       /\ runPc = "idle"
       /\ currentPty = "null"

\* updateApp has thrown its TypeError.
C20_Witness == updPc = "typeError"

\* C21: the TypeError for a relative install directory is thrown by the call
\* of updateApp itself: no call on such an instance returns a sequence that
\* waits for its first pull.
C21_TypeErrorAtCall == updPc = "called" => installDirAbs

\* C22: when the whole output has been read, updateApp has yielded one event
\* for each progress line the process emitted, in the order of emission, and
\* nothing else.
C22_OneEventPerProgressLine ==
  (chunks = <<>> /\ pending = <<>>) => events = emitted

\* The exit codes with a message of their own, and the text of the fallback.
KnownCodes ==
  {NO_ERROR, UNKNOWN_ERROR, ALREADY_LOGGED_IN, NO_CONNECTION, INVALID_PASSWORD,
   FAILED_TO_INSTALL, MISSING_PARAMETERS_OR_NOT_LOGGED_IN,
   STEAM_GUARD_CODE_REQUIRED}

FallbackText == "An unknown error occurred. Exit code: "

\* C23: a SteamCmdError built from code c has exitCode c and the message of
\* getErrorMessage(c); for 0, 1, 2, 3, 5, 8, 10 and 63 that message is the
\* code's own, different from that of every other such code and from the
\* fallback, and for every other value it is the fallback with the raw code.
C23_ErrorMessageTotal ==
  err # <<>> =>
    /\ err[1].exitCode = err[1].arg
    /\ err[1].message = GetErrorMessage(err[1].exitCode)
    /\ err[1].arg \in KnownCodes =>
         /\ err[1].message.raw = <<>>
         /\ err[1].message.text # FallbackText
         /\ \A d \in KnownCodes \ {err[1].arg} :
              GetErrorMessage(d).text # err[1].message.text
    /\ err[1].arg \notin KnownCodes =>
         err[1].message = [text |-> FallbackText, raw |-> <<err[1].arg>>]

\* A SteamCmdError was built from code 7, which has no message of its own.
C23_Witness ==
  /\ err # <<>>
  /\ err[1].arg = INITIALIZED
  /\ err[1].message.raw = <<INITIALIZED>>

\* C24: on an open queue every value a dequeue() has resolved with is an item
\* that entered the queue, and no two dequeues have resolved with the same
\* item.
C24_NoInventedValue ==
  ~isClosed =>
    /\ \A c \in 1..Len(calls) :
         calls[c].st = "resolved" => calls[c].val \in 1..nItems
    /\ \A c, d \in 1..Len(calls) :
         (c # d /\ calls[c].st = "resolved" /\ calls[d].st = "resolved") =>
           calls[c].val # calls[d].val

\* C25: with a single consumer that keeps pulling on a queue that is never
\* closed, every item that was enqueued is eventually returned by a dequeue.
ReturnedItem(i) ==
  \E c \in 1..Len(calls) :
    IF calls[c].kind = "next"
      THEN calls[c].out = "value" /\ calls[c].outVal = i
      ELSE calls[c].st = "resolved" /\ calls[c].val = i

C25_NoLostWakeup == \A i \in 1..MaxItems : (nItems >= i) ~> ReturnedItem(i)

\* MaxItems items were enqueued and each was returned to the one consumer,
\* which used both dequeue() and the iterator.
C25_Witness ==
  /\ nItems = MaxItems
  /\ ~multi
  /\ \E c \in 1..Len(calls) : calls[c].kind = "next"
  /\ \E c \in 1..Len(calls) : calls[c].kind = "dequeue"
  /\ \A i \in 1..MaxItems : ReturnedItem(i)

\* C26: once the exit event has fired and the promise jobs have run, no pull
\* on the line sequence is pending.
C26_PullsSettleAfterExit ==
  (ptyExited /\ jobs = <<>>) =>
    \A c \in NextCalls : calls[c].out # "pending"

\* C27: cleanup() acts on the one slot only: it clears the slot and changes no
\* run but the one the slot held, so a process the slot does not hold stays
\* alive and unsignalled.
C27_SingleSlotRaced ==
  [][lastStep' = "cleanup" =>
       /\ slot' = "null"
       /\ \A r \in Runs : r # slot => runs'[r] = runs[r]]_vars

\* cleanup() has just returned and a spawned process is alive that it did not
\* signal: the slot held the other run's process or null.
C27_Witness ==
  /\ lastStep = "cleanup"
  /\ \E r \in Runs : runs[r].alive /\ ~runs[r].killed

\* C28: while the spawned process is alive the script file exists and is
\* fully written.
C28_ScriptOutlivesProcess == procAlive => (fileExists /\ scriptWritten)

\* C29: in the pty bridge no enqueue() is refused by a closed queue, and a
\* closed queue means that the exit event has fired and that both listeners
\* are disposed of, so neither close() nor enqueue() can be called again.
C29_NoEnqueueOnClosed ==
  /\ ~(last.op = "enqueue" /\ last.threw)
  /\ isClosed => (ptyExited /\ ~onData /\ ~onExit)

\* A data event has fired after the exit listener closed the queue.
C29_Witness ==
  /\ isClosed
  /\ lateData

\* C30: when pty.spawn throws, the run is on its way out with that error: no
\* line sequence was started, so no line was yielded and no pull is pending,
\* no exit listener waits, no process exists; and the run settles.
C30_SpawnFailureFailsFast ==
  /\ [](runEnd = "spawnError" =>
          /\ runPc \in {"cleanup", "done"}
          /\ calls = <<>>
          /\ ~exitListener
          /\ ~procAlive
          /\ currentPty = "null")
  /\ (runEnd = "spawnError") ~> (runPc = "done")

\* A run whose spawn failed has settled.
C30_Witness ==
  /\ runPc = "done"
  /\ runEnd = "spawnError"
  /\ scriptWritten
  /\ calls = <<>>

\* C31: a login call that has ended leaves the stored username as the
\* argument when the run completed and as it was before the call when the
\* run threw, and the run that follows a failed login logs in with the user
\* stored before it.
C31_LoginKeepsUserOnFailure ==
  /\ (sessLast.op = "login" /\ sessPc \in {"idle", "login"}) =>
       username = IF sessLast.ok THEN sessLast.user ELSE sessLast.before
  /\ (sessLast.op = "login" /\ ~sessLast.ok /\ sessPc = "run") =>
       scripts[Len(scripts)].text =
         JoinLines(AllCommandsAs(sessLast.before, given, FALSE)) \o <<NL>>

\* A login with another user than the stored one has failed, and a run after
\* it has written its script.
C31_Witness ==
  /\ sessLast.op = "login"
  /\ ~sessLast.ok
  /\ sessLast.user # sessLast.before
  /\ sessPc = "run"

C33_ItemIsOneCleanLine ==
  (cleanOut # <<>> /\ ~rawMode) =>
    \A i \in 1..Len(cleanOut[1]) :
      /\ cleanOut[1][i] # CR
      /\ cleanOut[1][i] = LF => i = Len(cleanOut[1])

\* C34: in cleaned mode the item made of a chunk neither begins nor ends with
\* white space.
C34_ItemIsTrimmed ==
  (cleanOut # <<>> /\ ~rawMode /\ cleanOut[1] # <<>>) =>
    /\ ~IsSpace(cleanOut[1][1])
    /\ ~IsSpace(cleanOut[1][Len(cleanOut[1])])

\* C35: an open queue with one consumer returns the values given to the
\* constructor in array order: the k-th dequeue to resolve returns the k-th of
\* them, for every k up to their number.
C35_InitialValuesInOrder ==
  (~multi /\ ~isClosed) =>
    \A c \in 1..Len(calls) :
      (c <= nInit /\ calls[c].st = "resolved") => calls[c].val = c

\* C36: the code emitted with 'close' is the code of the first marker line of
\* the output when there is one, and the process's own code otherwise.
C36_FirstMarkerWins ==
  sReported # <<>> =>
    sReported[1].code = IF seen # <<>> THEN seen[1] ELSE sReported[1].own

\* C37: _promiseToRetry calls the operation at most `retries` times; it
\* rejects after exactly that many failed attempts; it resolves with the
\* value of the first attempt that succeeded, which is its last attempt; and
\* every call of it settles.
C37_RetryBounded ==
  /\ [](Len(attempts) <= retriesOpt)
  /\ [](retryPc = "rejected" =>
          /\ Len(attempts) = retriesOpt
          /\ \A i \in 1..Len(attempts) : attempts[i] = "fail")
  /\ [](retryPc = "resolved" =>
          /\ attempts # <<>>
          /\ \A i \in 1..(Len(attempts) - 1) : attempts[i] = "fail"
          /\ attempts[Len(attempts)] # "fail"
          /\ retryValue = <<attempts[Len(attempts)]>>)
  /\ [](retryPc \notin {"resolved", "rejected"} =>
          /\ retryValue = <<>>
          /\ \A i \in 1..Len(attempts) : attempts[i] = "fail")
  /\ (retryPc # "idle") ~> (retryPc \in {"resolved", "rejected"})

\* The last of MaxRetries attempts was the first to succeed.
C37_Witness ==
  /\ retryPc = "resolved"
  /\ retriesOpt = MaxRetries
  /\ Len(attempts) = MaxRetries
  /\ MaxRetries >= 2

\* The lines of a text: the pieces that end with a line feed, and what is
\* left after the last line feed when that is not empty.
RECURSIVE LinesOf(_)
LinesOf(t) ==
  IF t = <<>> THEN <<>>
  ELSE IF IndexOfLf(t) = 0 THEN <<t>>
  ELSE <<SubSeq(t, 1, IndexOfLf(t))>> \o
       LinesOf(SubSeq(t, IndexOfLf(t) + 1, Len(t)))

\* C38: whatever the chunks, the lines _chunksToLines has yielded at its end
\* are the lines of the whole text with every CR LF rewritten to LF.
C38_LinesIndependentOfChunks ==
  lPc = "done" => yielded = LinesOf(ReplaceCrLf(lText))

\* C39: for every code of the legacy EXIT_CODES table the legacy
\* getErrorMessage returns a message of its own, not the fallback with the
\* raw code, and for 63 the message that a Steam Guard code was required.
C39_LegacyMessagesSpecific ==
  legacyMsg # <<>> =>
    /\ (\E key \in DOMAIN LegacyExitCodes :
          legacyMsg[1].arg = LegacyExitCodes[key]) =>
         /\ legacyMsg[1].message.raw = <<>>
         /\ legacyMsg[1].message.text # FallbackText
    /\ legacyMsg[1].arg = STEAM_GUARD_CODE_REQUIRED =>
         legacyMsg[1].message.text = "A Steam Guard code was required to log in"

====
